---------------------------- MODULE Spec2Model ----------------------------
(***************************************************************************)
(* A model of src/src/Issue14Native/Issue14Native.cpp: the native stress   *)
(* test that drives scatter reads against one shared MemProcFS session     *)
(* from long-running and self-respawning worker threads, under a           *)
(* simulated GC pause flag and memory pressure.                            *)
(*                                                                         *)
(* Threads are detached and anonymous, so the worker population is a bag   *)
(* of thread records (one record per live thread: its position and its     *)
(* locals).  The external session (vmmdll) is the environment: each call   *)
(* into it answers nondeterministically.                                   *)
(***************************************************************************)
EXTENDS Integers, Sequences, FiniteSets, Bags, TLC

VARIABLES
    process,            \* "running" | "exited" | "crashed"
    exitCode,           \* main's return value once process = "exited", else -1
    mainPc,             \* position of main()
    mainI,              \* loop variable i of main's current for loop
    hVmm_,              \* VmmSession::hVmm_ : "null" | "open" | "closed"
    physMemMap_,        \* VmmSession::physMemMap_ : NullMap or the map record
    pages_,             \* VmmSession::pages_ : sequence of PMemPageEntry
    g_simulateGCPause,  \* std::atomic<bool>
    g_totalWorkers,     \* std::atomic<int>
    g_crashCount,       \* std::atomic<int>
    gcThread,           \* GCSimulatorThread: "none" | "interval" | "pause"
    memThreads,         \* number of MemoryPressureThread threads running
    workers,            \* bag of worker thread records
    scatterOpen,        \* scatter handles the session has open (not yet closed)
    statusLine,         \* whether main has printed a "[Status]" line
    safepoint           \* what the last observed SimulateGCSafepoint call did

vars == <<process, exitCode, mainPc, mainI, hVmm_, physMemMap_, pages_,
          g_simulateGCPause, g_totalWorkers, g_crashCount, gcThread,
          memThreads, workers, scatterOpen, statusLine, safepoint>>

sessionVars == <<hVmm_, physMemMap_, pages_>>
counterVars == <<g_totalWorkers, g_crashCount>>
threadVars  == <<gcThread, memThreads, workers>>

Null == "null"

\* A null physMemMap_ pointer.
NullMap == [null |-> TRUE]

\* No call of SimulateGCSafepoint observed yet.
NoCall == [slept |-> FALSE, r |-> -1, yield |-> "none"]

(***************************************************************************)
(* Program constants.                                                      *)
(***************************************************************************)
PageSize == 4096
PhysMemVersion == 2
MemoryPressureThreads == 4
LongWorkers == 8
TransientWorkers == 8
CountMin == 4
SafepointStride == 100
SafepointDrawMax == 100
YieldBelow == 5
SleepZeroBelow == 10

(***************************************************************************)
(* Bounds of the model.                                                    *)
(***************************************************************************)
MaxRegions == 3
MaxActive == 2
MaxScatterOpen == 2
MaxCrashes == 2
MaxExtraCount == 0

(***************************************************************************)
(* Sequence helpers.                                                       *)
(***************************************************************************)
Range(s) == {s[k] : k \in DOMAIN s}

Reverse(s) == [k \in 1..Len(s) |-> s[Len(s) + 1 - k]]

Rotate(s, k) == SubSeq(s, k + 1, Len(s)) \o SubSeq(s, 1, k)

RECURSIVE SeqsUpTo(_, _)
SeqsUpTo(S, n) ==
    IF n = 0 THEN {<<>>}
    ELSE LET shorter == SeqsUpTo(S, n - 1)
         IN  shorter \cup {Append(s, x) : s \in {t \in shorter : Len(t) = n - 1}, x \in S}

(***************************************************************************)
(* VmmSession::BuildPageList, lines 101-127.                               *)
(***************************************************************************)
PMemPageEntry(p, cb) == [PageBase |-> p, RemainingBytesInSection |-> cb]

\* The inner while loop of one map entry with the loop test cbToEnd >= 0x1000.
RECURSIVE SplitEntryAtLeast(_, _)
SplitEntryAtLeast(p, cbToEnd) ==
    IF cbToEnd >= PageSize
    THEN <<PMemPageEntry(p, cbToEnd)>> \o SplitEntryAtLeast(p + PageSize, cbToEnd - PageSize)
    ELSE <<>>

\* The same loop running while any byte is left.
RECURSIVE SplitEntryPartial(_, _)
SplitEntryPartial(p, cbToEnd) ==
    IF cbToEnd > 0
    THEN <<PMemPageEntry(p, cbToEnd)>> \o SplitEntryPartial(p + PageSize, cbToEnd - PageSize)
    ELSE <<>>

\* The same loop without the advance of p.
RECURSIVE SplitEntryNoAdvance(_, _)
SplitEntryNoAdvance(p, cbToEnd) ==
    IF cbToEnd > PageSize
    THEN <<PMemPageEntry(p, cbToEnd)>> \o SplitEntryNoAdvance(p, cbToEnd - PageSize)
    ELSE <<>>

\* The inner while loop of one map entry: while (cbToEnd > 0x1000).
RECURSIVE SplitEntry(_, _)
SplitEntry(p, cbToEnd) ==
    IF cbToEnd > PageSize
    THEN <<PMemPageEntry(p, cbToEnd)>> \o SplitEntry(p + PageSize, cbToEnd - PageSize)
    ELSE <<>>

\* The outer for loop over physMemMap_->pMap[0 .. cMap-1].
RECURSIVE PageList(_)
PageList(pMap) ==
    IF pMap = <<>> THEN <<>>
    ELSE SplitEntry(Head(pMap).pa, Head(pMap).cb) \o PageList(Tail(pMap))

\* std::shuffle with a random_device-seeded engine: some permutation of the
\* list.  The model draws it from the rotations of the list and their
\* reversals, a finite family that moves every element to every position.
ShuffleChoices(list) ==
    IF list = <<>> THEN {<<>>}
    ELSE {Rotate(list, k) : k \in 0..(Len(list) - 1)}
         \cup {Reverse(Rotate(list, k)) : k \in 0..(Len(list) - 1)}

(***************************************************************************)
(* What VMMDLL_Map_GetPhysMem may hand back.                               *)
(***************************************************************************)
PaChoices == {0, 8192, 12288}
CbChoices == {4096, 8192, 8193, 20480}
MapEntries == [pa : PaChoices, cb : CbChoices] \cup {[pa |-> 4196, cb |-> 8192]}

PhysMemMap(ver, pMap) == [dwVersion |-> ver, pMap |-> pMap]

\* Every map of up to MaxRegions entries, with the expected version.
AllMaps == {PhysMemMap(PhysMemVersion, m) : m \in SeqsUpTo(MapEntries, MaxRegions)}

\* A map of another version.
BadVersionMaps == {PhysMemMap(PhysMemVersion + 1, <<[pa |-> 0, cb |-> 8192]>>)}

\* A few maps, for the specifications that are about the threads: an empty
\* map, a map whose only region is one page long, and maps giving pools of
\* one and of two pages.
FewMaps ==
    {PhysMemMap(PhysMemVersion, m) :
        m \in {<<>>,
               <<[pa |-> 0, cb |-> 4096]>>,
               <<[pa |-> 0, cb |-> 8192]>>,
               <<[pa |-> 0, cb |-> 8193]>>}}

(***************************************************************************)
(* Worker thread records.                                                  *)
(***************************************************************************)
NewWorker(kind) ==
    [kind |-> kind, pc |-> "start", count |-> 0, pages |-> <<>>,
     hS |-> FALSE, i |-> 0, prep |-> 0, exec |-> 0, read |-> 0, sp |-> 0]

Threads == BagToSet(workers)

ThreadsOf(kind) == {t \in Threads : t.kind = kind}

RECURSIVE SumCopies(_)
SumCopies(S) ==
    IF S = {} THEN 0
    ELSE LET t == CHOOSE x \in S : TRUE
         IN  CopiesIn(t, workers) + SumCopies(S \ {t})

\* How many live threads of a kind there are.
NumThreads(kind) == SumCopies(ThreadsOf(kind))

Spawn(bag, kind) == bag (+) SetToBag({NewWorker(kind)})

\* Thread t goes on as t2; thread t ends.
Goes(bag, t, t2) == (bag (-) SetToBag({t})) (+) SetToBag({t2})
Ends(bag, t) == bag (-) SetToBag({t})

\* The threads that have begun to run.
NumActive == SumCopies({t \in Threads : t.pc # "start"})

(***************************************************************************)
(* The initial state: main() has not yet constructed the session.          *)
(***************************************************************************)
Init ==
    /\ process = "running"
    /\ exitCode = -1
    /\ mainPc = "ctor"
    /\ mainI = 0
    /\ hVmm_ = Null
    /\ physMemMap_ = NullMap
    /\ pages_ = <<>>
    /\ g_simulateGCPause = FALSE
    /\ g_totalWorkers = 0
    /\ g_crashCount = 0
    /\ gcThread = "none"
    /\ memThreads = 0
    /\ workers = EmptyBag
    /\ scatterOpen = 0
    /\ statusLine = FALSE
    /\ safepoint = NoCall

(***************************************************************************)
(* main(), lines 344-406.                                                  *)
(***************************************************************************)

\* VmmSession vmm(args), lines 40-61 with BuildPageList: the constructor
\* throws when VMMDLL_Initialize fails, when VMMDLL_Map_GetPhysMem fails, and
\* when the map is missing or of an unexpected version.  A constructor that
\* throws runs no destructor: hVmm_ is not closed.
VmmSessionCtor(maps) ==
    /\ process = "running"
    /\ mainPc = "ctor"
    /\ \/ \* VMMDLL_Initialize returns NULL
          /\ mainPc' = "catch"
          /\ UNCHANGED sessionVars
       \/ \* VMMDLL_Map_GetPhysMem returns FALSE
          /\ hVmm_' = "open"
          /\ mainPc' = "catch"
          /\ UNCHANGED <<physMemMap_, pages_>>
       \/ \* VMMDLL_Map_GetPhysMem returns TRUE but leaves no map
          /\ hVmm_' = "open"
          /\ physMemMap_' = NullMap
          /\ mainPc' = "catch"
          /\ UNCHANGED pages_
       \/ \E map \in maps \cup BadVersionMaps :
            /\ hVmm_' = "open"
            /\ physMemMap_' = map
            /\ IF map.dwVersion # PhysMemVersion
               THEN /\ mainPc' = "catch"
                    /\ UNCHANGED pages_
               ELSE /\ pages_' \in ShuffleChoices(PageList(map.pMap))
                    /\ mainPc' = "spawnGC"
    /\ UNCHANGED <<process, exitCode, mainI, g_simulateGCPause, counterVars,
                   threadVars, scatterOpen, statusLine, safepoint>>

\* The test of main's three for loops with one more round.
MoreToSpawnInclusive(i, n) == i <= n

\* The test of main's three for loops, lines 366, 373, 380: i < n.
MoreToSpawn(i, n) == i < n

\* std::thread's constructor throws std::system_error when no thread can be
\* started.  The exception leaves the try block: vmm is destroyed
\* (~VmmSession, lines 66-78) before the handler at line 399 runs.
SpawnFails ==
    /\ process = "running"
    /\ \/ mainPc = "spawnGC"
       \/ mainPc = "spawnMem" /\ MoreToSpawn(mainI, MemoryPressureThreads)
       \/ mainPc = "spawnLong" /\ MoreToSpawn(mainI, LongWorkers)
       \/ mainPc = "spawnTransient" /\ MoreToSpawn(mainI, TransientWorkers)
    /\ physMemMap_' = NullMap
    /\ hVmm_' = "closed"
    /\ mainPc' = "catch"
    /\ UNCHANGED <<process, exitCode, mainI, pages_, g_simulateGCPause,
                   counterVars, threadVars, scatterOpen, statusLine, safepoint>>

\* std::thread(GCSimulatorThread).detach(), line 362.
SpawnGC ==
    /\ process = "running"
    /\ mainPc = "spawnGC"
    /\ gcThread' = "interval"
    /\ mainPc' = "spawnMem"
    /\ mainI' = 0
    /\ UNCHANGED <<process, exitCode, sessionVars, g_simulateGCPause,
                   counterVars, memThreads, workers, scatterOpen, statusLine, safepoint>>

\* for (i = 0; i < 4; i++) std::thread(MemoryPressureThread).detach(), 366-369.
SpawnMem ==
    /\ process = "running"
    /\ mainPc = "spawnMem"
    /\ IF MoreToSpawn(mainI, MemoryPressureThreads)
       THEN /\ memThreads' = memThreads + 1
            /\ mainI' = mainI + 1
            /\ UNCHANGED mainPc
       ELSE /\ mainPc' = "spawnLong"
            /\ mainI' = 0
            /\ UNCHANGED memThreads
    /\ UNCHANGED <<process, exitCode, sessionVars, g_simulateGCPause,
                   counterVars, gcThread, workers, scatterOpen, statusLine, safepoint>>

\* for (i = 0; i < 8; i++) std::thread([&vmm]{ LongWorker(vmm); }).detach(), 373-377.
SpawnLong ==
    /\ process = "running"
    /\ mainPc = "spawnLong"
    /\ IF MoreToSpawn(mainI, LongWorkers)
       THEN /\ workers' = Spawn(workers, "Long")
            /\ mainI' = mainI + 1
            /\ UNCHANGED mainPc
       ELSE /\ mainPc' = "spawnTransient"
            /\ mainI' = 0
            /\ UNCHANGED workers
    /\ UNCHANGED <<process, exitCode, sessionVars, g_simulateGCPause,
                   counterVars, gcThread, memThreads, scatterOpen, statusLine, safepoint>>

\* for (i = 0; i < 8; i++) SpawnTransientWorker(vmm), 380-384.
SpawnTransient ==
    /\ process = "running"
    /\ mainPc = "spawnTransient"
    /\ IF MoreToSpawn(mainI, TransientWorkers)
       THEN /\ workers' = Spawn(workers, "Transient")
            /\ mainI' = mainI + 1
            /\ UNCHANGED mainPc
       ELSE /\ mainPc' = "monitor"
            /\ mainI' = 0
            /\ UNCHANGED workers
    /\ UNCHANGED <<process, exitCode, sessionVars, g_simulateGCPause,
                   counterVars, gcThread, memThreads, scatterOpen, statusLine, safepoint>>

\* One round of the monitor loop, lines 390-395: Sleep(5000), then the
\* status line with the values loaded from both counters.
MonitorReport ==
    /\ process = "running"
    /\ mainPc = "monitor"
    /\ statusLine' = TRUE
    /\ UNCHANGED <<process, exitCode, mainPc, mainI, sessionVars,
                   g_simulateGCPause, counterVars, threadVars, scatterOpen,
                   safepoint>>

\* The handler at lines 399-405: the message, getchar(), return 1.  Returning
\* from main ends the process and every detached thread with it.
MainCatch ==
    /\ process = "running"
    /\ mainPc = "catch"
    /\ mainPc' = "returned"
    /\ process' = "exited"
    /\ exitCode' = 1
    /\ gcThread' = "none"
    /\ memThreads' = 0
    /\ workers' = EmptyBag
    /\ UNCHANGED <<mainI, sessionVars, g_simulateGCPause, counterVars,
                   scatterOpen, statusLine, safepoint>>

MainStep(maps) ==
    \/ VmmSessionCtor(maps)
    \/ SpawnFails
    \/ SpawnGC
    \/ SpawnMem
    \/ SpawnLong
    \/ SpawnTransient
    \/ MonitorReport
    \/ MainCatch

(***************************************************************************)
(* GCSimulatorThread, lines 305-321, and MemoryPressureThread, 324-341.     *)
(***************************************************************************)

\* Sleep(interval), then g_simulateGCPause.store(true), lines 314-317.
GCPauseBegin ==
    /\ process = "running"
    /\ gcThread = "interval"
    /\ g_simulateGCPause' = TRUE
    /\ gcThread' = "pause"
    /\ UNCHANGED <<process, exitCode, mainPc, mainI, sessionVars, counterVars,
                   memThreads, workers, scatterOpen, statusLine, safepoint>>

\* Sleep(pause), then g_simulateGCPause.store(false), lines 318-319.
GCPauseEnd ==
    /\ process = "running"
    /\ gcThread = "pause"
    /\ g_simulateGCPause' = FALSE
    /\ gcThread' = "interval"
    /\ UNCHANGED <<process, exitCode, mainPc, mainI, sessionVars, counterVars,
                   memThreads, workers, scatterOpen, statusLine, safepoint>>

\* A memory pressure thread that clears the pause flag.
MemoryPressureClearsFlag ==
    /\ process = "running"
    /\ memThreads > 0
    /\ g_simulateGCPause' = FALSE
    /\ UNCHANGED <<process, exitCode, mainPc, mainI, sessionVars, counterVars,
                   threadVars, scatterOpen, statusLine, safepoint>>

\* One round of a memory pressure thread, lines 332-339: malloc, memset,
\* free, SwitchToThread.  It touches nothing any other thread reads.
MemoryPressureRound ==
    /\ process = "running"
    /\ memThreads > 0
    /\ UNCHANGED vars

(***************************************************************************)
(* VmmSession::GetRandomPage and GetRandomPages, lines 83-98.              *)
(***************************************************************************)
\* What a read outside pages_ yields when it yields a value at all.
Garbage == PMemPageEntry(-1, -1)

\* The distribution with one index too many: dist(0, pages_.size()).
IndexChoicesInclusive(size) == 0..size

\* dist(0, pages_.size() - 1) in size_t: for an empty vector the upper end
\* wraps to SIZE_MAX and every index drawn lies outside the vector; index 0
\* stands for them.
IndexChoices(size) == IF size = 0 THEN {0} ELSE 0..(size - 1)

\* pages_[idx], idx counted from 0; undefined behaviour outside the vector.
At(pool, idx) == IF idx < Len(pool) THEN pool[idx + 1] ELSE Garbage

GetRandomPage(pool) == {At(pool, idx) : idx \in IndexChoices(Len(pool))}

\* count independent draws, pushed back in order.
GetRandomPages(pool, count) == [1..count -> GetRandomPage(pool)]

(***************************************************************************)
(* LongWorker, lines 235-254, and TransientWorker, lines 259-302.          *)
(***************************************************************************)
\* The process is ended from inside a thread (std::terminate, or a fault no
\* handler takes): every thread ends with it.
ProcessDies ==
    /\ process' = "crashed"
    /\ gcThread' = "none"
    /\ memThreads' = 0
    /\ workers' = EmptyBag

\* A step of a worker thread after which the process runs on.
ProcessGoesOn == UNCHANGED <<process, gcThread, memThreads>>

\* A start that leaves the counter alone.
StartedNotCounted(n) == n

\* g_totalWorkers++ at the start of a worker, lines 237 and 266.
Started(n) == n + 1

\* The first statement of LongWorker and of TransientWorker.  The lifetime a
\* TransientWorker draws (2000..18000 ms) and its start time are not kept:
\* time is not modelled, and the lifetime may run out before any loop round.
WorkerStart ==
    \E t \in Threads :
        /\ process = "running"
        /\ t.pc = "start"
        /\ g_totalWorkers' = Started(g_totalWorkers)
        /\ workers' = Goes(workers, t, [t EXCEPT !.pc = "loop"])
        /\ UNCHANGED <<process, exitCode, mainPc, mainI, sessionVars,
                       g_simulateGCPause, g_crashCount, gcThread, memThreads,
                       scatterOpen, statusLine, safepoint>>

\* The head of a loop round that goes on: LongWorker's while (true), and
\* TransientWorker's test now - startTime > lifetime being false; the call of
\* DoReads at lines 242 and 285.
CallDoReads ==
    \E t \in Threads :
        /\ process = "running"
        /\ t.pc = "loop"
        /\ workers' = Goes(workers, t, [t EXCEPT !.pc = "reads"])
        /\ UNCHANGED <<process, exitCode, mainPc, mainI, sessionVars,
                       g_simulateGCPause, counterVars, gcThread, memThreads,
                       scatterOpen, statusLine, safepoint>>

\* Every worker has a lifetime.
HasLifetimeAny(t) == TRUE

\* Only TransientWorker tests a lifetime (lines 277-281); LongWorker's loop
\* has no exit.
HasLifetime(t) == t.kind = "Transient"

\* TransientWorker's lifetime is over: break at line 280, g_totalWorkers-- at
\* line 298.
TransientExpire ==
    \E t \in Threads :
        /\ process = "running"
        /\ HasLifetime(t)
        /\ t.pc = "loop"
        /\ g_totalWorkers' = g_totalWorkers - 1
        /\ workers' = Goes(workers, t, [t EXCEPT !.pc = "respawn"])
        /\ UNCHANGED <<process, exitCode, mainPc, mainI, sessionVars,
                       g_simulateGCPause, g_crashCount, gcThread, memThreads,
                       scatterOpen, statusLine, safepoint>>

\* A respawn that starts no thread.
SuccessorNone(bag) == bag

\* A respawn that starts two threads.
SuccessorTwo(bag) == Spawn(Spawn(bag, "Transient"), "Transient")

\* SpawnTransientWorker(vmm), lines 259-262: one detached TransientWorker.
Successor(bag) == Spawn(bag, "Transient")

\* SpawnTransientWorker(vmm) at line 301 starts the successor; the thread
\* then returns from TransientWorker and ends.  When std::thread's
\* constructor throws, the exception leaves the thread's function, no
\* handler being around line 301: std::terminate ends the process.
TransientRespawn ==
    \E t \in Threads :
        /\ process = "running"
        /\ t.pc = "respawn"
        /\ \/ /\ workers' = Successor(Ends(workers, t))
              /\ ProcessGoesOn
           \/ ProcessDies
        /\ UNCHANGED <<exitCode, mainPc, mainI, sessionVars,
                       g_simulateGCPause, counterVars, scatterOpen, statusLine,
                       safepoint>>

\* The thread's record back in its loop, DoReads' locals gone.
BackInLoop(t) == [NewWorker(t.kind) EXCEPT !.pc = "loop"]

\* A return that counts a crash.
ReturnsCounted(t) ==
    /\ workers' = Goes(workers, t, BackInLoop(t))
    /\ g_crashCount' = g_crashCount + 1
    /\ UNCHANGED g_totalWorkers

\* DoReads returns: the try block ends without a handler run.
Returns(t) ==
    /\ workers' = Goes(workers, t, BackInLoop(t))
    /\ UNCHANGED counterVars

\* A handler for anything else that counts no crash.
ThrowsUncounted(t, what) ==
    /\ workers' = Goes(workers, t, BackInLoop(t))
    /\ UNCHANGED counterVars

\* DoReads throws: the handler for std::exception (lines 244-247, 287-290)
\* logs; the handler for anything else (lines 248-252, 291-295) logs and
\* counts a crash.
Throws(t, what) ==
    /\ workers' = Goes(workers, t, BackInLoop(t))
    /\ IF what = "std::exception"
       THEN UNCHANGED counterVars
       ELSE /\ g_crashCount' = g_crashCount + 1
            /\ UNCHANGED g_totalWorkers

\* An exception that is no std::exception is raised only while the crash
\* counter is below the model's bound.
MayCrash == g_crashCount < MaxCrashes

(***************************************************************************)
(* DoReads, lines 160-232, statement by statement.                         *)
(***************************************************************************)
\* countDist(4, 4096); the model draws from the low end of the range.
CountChoices == CountMin..(CountMin + MaxExtraCount)

SafepointPcs ==
    {"sp_pre_open", "sp_post_open", "sp_prepare", "sp_pre_exec", "sp_post_exec", "sp_read"}

\* The positions of a thread inside DoReads.
DoReadsPcs ==
    SafepointPcs \cup {"reads", "open", "alloc", "prepare", "execute", "read", "close", "closed"}

\* The loop test with one round less.
LoopContinuesShort(i, n) == i < n - 1

\* The test of both for loops, lines 190 and 212: i < pages.size().
LoopContinues(i, n) == i < n

\* The safepoint taken after every 100th round: ((i + 1) % 100) == 0.
SafepointDueAfter(i) == (i + 1) % SafepointStride = 0

\* The safepoint inside a loop is taken when (i % 100) == 0, lines 196, 225.
SafepointDue(i) == i % SafepointStride = 0

frame == <<process, exitCode, mainPc, mainI, sessionVars, g_simulateGCPause,
           gcThread, memThreads, statusLine, safepoint>>

\* main's vmm has been destroyed (~VmmSession, lines 66-78): the reference
\* the workers hold dangles, and every use of it is undefined behaviour.
SessionGone == hVmm_ = "closed"

\* Lines 162-172: the count and the sample of count pages (the flags drawn
\* at line 168 are read at line 177 only, see ScatterInitialize).  The
\* vector of the sample may fail to allocate.  A page read outside pages_ is
\* undefined behaviour: it may yield garbage, raise an access violation that
\* the worker's catch (...) sees, or end the process.
DoReadsEnterOf(counts) ==
    \E t \in Threads :
        /\ process = "running"
        /\ t.pc = "reads"
        /\ \/ \E count \in counts :
                \E sample \in GetRandomPages(pages_, count) :
                   \/ /\ workers' = Goes(workers, t,
                             [t EXCEPT !.pc = "sp_pre_open",
                                       !.count = count, !.pages = sample])
                      /\ UNCHANGED counterVars
                      /\ ProcessGoesOn
                   \/ /\ Garbage \in Range(sample) \/ SessionGone
                      /\ MayCrash
                      /\ Throws(t, "unknown")
                      /\ ProcessGoesOn
                   \/ /\ Garbage \in Range(sample) \/ SessionGone
                      /\ ProcessDies
                      /\ UNCHANGED counterVars
           \/ /\ Throws(t, "std::exception")
              /\ ProcessGoesOn
        /\ UNCHANGED <<exitCode, mainPc, mainI, sessionVars, g_simulateGCPause,
                       scatterOpen, statusLine, safepoint>>

DoReadsEnter == DoReadsEnterOf(CountChoices)

\* Where a thread goes on after a safepoint.
AfterSafepoint(t) ==
    CASE t.pc = "sp_pre_open"  -> [t EXCEPT !.pc = "open"]
      [] t.pc = "sp_post_open" -> [t EXCEPT !.pc = "alloc"]
      [] t.pc = "sp_prepare"   ->
            [t EXCEPT !.i = t.i + 1,
                      !.pc = IF LoopContinues(t.i + 1, Len(t.pages))
                             THEN "prepare" ELSE "sp_pre_exec"]
      [] t.pc = "sp_pre_exec"  -> [t EXCEPT !.pc = "execute"]
      [] t.pc = "sp_post_exec" ->
            [t EXCEPT !.i = 0,
                      !.pc = IF LoopContinues(0, Len(t.pages)) THEN "read" ELSE "close"]
      [] t.pc = "sp_read"      ->
            [t EXCEPT !.i = t.i + 1,
                      !.pc = IF LoopContinues(t.i + 1, Len(t.pages))
                             THEN "read" ELSE "close"]

\* SimulateGCSafepoint(prng) at lines 175, 184, 198, 203, 209 and 227: the
\* load of the pause flag with Sleep(1) when it is set, then the draw and its
\* yield.  The thread's timing is all it changes.
SafepointStep ==
    \E t \in Threads :
        /\ process = "running"
        /\ t.pc \in SafepointPcs
        /\ workers' = Goes(workers, t, [AfterSafepoint(t) EXCEPT !.sp = t.sp + 1])
        /\ UNCHANGED <<process, exitCode, mainPc, mainI, sessionVars,
                       g_simulateGCPause, gcThread, memThreads, statusLine,
                       counterVars, scatterOpen>>

Safepoint == SafepointStep /\ UNCHANGED safepoint

\* The values of dist(prng), line 148: uniform_int_distribution<int>(0, 100)
\* draws from the closed range.
SafepointDraws == 0..SafepointDrawMax

\* Lines 150-157: what the drawn value makes the thread do.
YieldOf(r) ==
    IF r < YieldBelow THEN "SwitchToThread"
    ELSE IF r < SleepZeroBelow THEN "Sleep0"
    ELSE "none"

\* What one call of SimulateGCSafepoint does (lines 140-158), given the value
\* the load of line 143 returned and the value drawn at line 149: whether
\* Sleep(1) ran, the draw, and the yield.
SimulateGCSafepoint(flag, r) == [slept |-> flag, r |-> r, yield |-> YieldOf(r)]

\* Safepoint, with what the call did recorded in safepoint.
SafepointObserved ==
    /\ SafepointStep
    /\ \E r \in SafepointDraws :
           safepoint' = SimulateGCSafepoint(g_simulateGCPause, r)

\* VMMDLL_Scatter_Initialize, lines 177-181: a null handle ends the
\* iteration.  The session hands out a handle only while it has fewer than
\* MaxScatterOpen open, whichever flags (VMMDLL_FLAG_NOCACHE or 0,
\* line 168) the call is made with.
ScatterInitialize ==
    \E t \in Threads :
        /\ process = "running"
        /\ t.pc = "open"
        /\ \/ /\ scatterOpen < MaxScatterOpen
              /\ scatterOpen' = scatterOpen + 1
              /\ workers' = Goes(workers, t, [t EXCEPT !.pc = "sp_post_open", !.hS = TRUE])
              /\ UNCHANGED counterVars
           \/ /\ Returns(t)
              /\ UNCHANGED scatterOpen
        /\ UNCHANGED frame

\* Lines 186-187: the vector cbWants, which may fail to allocate.
AllocCbWants ==
    \E t \in Threads :
        /\ process = "running"
        /\ t.pc = "alloc"
        /\ \/ /\ workers' = Goes(workers, t,
                     [t EXCEPT !.i = 0,
                               !.pc = IF LoopContinues(0, Len(t.pages))
                                      THEN "prepare" ELSE "sp_pre_exec"])
              /\ UNCHANGED counterVars
           \/ Throws(t, "std::exception")
        /\ UNCHANGED <<frame, scatterOpen>>

\* One round of the prepare loop, lines 190-200: the requested size is drawn
\* and VMMDLL_Scatter_Prepare called, its result ignored.  The sizes reach
\* only the session and are not kept.
ScatterPrepare ==
    \E t \in Threads :
        /\ process = "running"
        /\ t.pc = "prepare"
        /\ workers' = Goes(workers, t,
              IF SafepointDue(t.i)
              THEN [t EXCEPT !.prep = t.prep + 1, !.pc = "sp_prepare"]
              ELSE [t EXCEPT !.prep = t.prep + 1, !.i = t.i + 1,
                             !.pc = IF LoopContinues(t.i + 1, Len(t.pages))
                                    THEN "prepare" ELSE "sp_pre_exec"])
        /\ UNCHANGED <<frame, counterVars, scatterOpen>>

\* VMMDLL_Scatter_Execute, line 206, its result ignored.
ScatterExecute ==
    \E t \in Threads :
        /\ process = "running"
        /\ t.pc = "execute"
        /\ workers' = Goes(workers, t, [t EXCEPT !.exec = t.exec + 1, !.pc = "sp_post_exec"])
        /\ UNCHANGED <<frame, counterVars, scatterOpen>>

\* One round of the read loop, lines 212-229: the buffer, which may fail to
\* allocate, then VMMDLL_Scatter_Read.
ScatterRead ==
    \E t \in Threads :
        /\ process = "running"
        /\ t.pc = "read"
        /\ \/ /\ workers' = Goes(workers, t,
                     IF SafepointDue(t.i)
                     THEN [t EXCEPT !.read = t.read + 1, !.pc = "sp_read"]
                     ELSE [t EXCEPT !.read = t.read + 1, !.i = t.i + 1,
                                    !.pc = IF LoopContinues(t.i + 1, Len(t.pages))
                                           THEN "read" ELSE "close"])
              /\ UNCHANGED counterVars
           \/ Throws(t, "std::exception")
        /\ UNCHANGED <<frame, scatterOpen>>

\* A call into the session ends in a fault that is no C++ exception of the
\* program (the crash the test is hunting).
ScatterCallFaults ==
    \E t \in Threads :
        /\ process = "running"
        /\ t.pc \in {"prepare", "execute", "read"}
        /\ MayCrash
        /\ Throws(t, "unknown")
        /\ UNCHANGED <<frame, scatterOpen>>

\* VMMDLL_Scatter_CloseHandle, line 231.
ScatterCloseHandle ==
    \E t \in Threads :
        /\ process = "running"
        /\ t.pc = "close"
        /\ scatterOpen' = scatterOpen - 1
        /\ workers' = Goes(workers, t, [t EXCEPT !.pc = "closed", !.hS = FALSE])
        /\ UNCHANGED <<frame, counterVars>>

\* The end of DoReads, line 232.
DoReadsReturn ==
    \E t \in Threads :
        /\ process = "running"
        /\ t.pc = "closed"
        /\ Returns(t)
        /\ UNCHANGED <<frame, scatterOpen>>

\* DoReads as one step of its caller: it returns or throws, and it may leave
\* behind the scatter handle it opened (see ScatterInitialize, AllocCbWants,
\* ScatterRead and ScatterCallFaults: nothing closes the handle on a throw).
DoReadsWholeUpTo(limit) ==
    \E t \in Threads :
        /\ process = "running"
        /\ t.pc = "reads"
        /\ \/ /\ Returns(t)
              /\ ProcessGoesOn
              /\ UNCHANGED scatterOpen
           \/ /\ pages_ = <<>> \/ SessionGone
              /\ ProcessDies
              /\ UNCHANGED <<counterVars, scatterOpen>>
           \/ \E what \in {"std::exception", "unknown"} :
                /\ what = "unknown" => MayCrash
                /\ Throws(t, what)
                /\ ProcessGoesOn
                /\ \/ UNCHANGED scatterOpen
                   \/ /\ scatterOpen < limit
                      /\ scatterOpen' = scatterOpen + 1
        /\ UNCHANGED <<exitCode, mainPc, mainI, sessionVars, g_simulateGCPause,
                       statusLine, safepoint>>

DoReadsWhole == DoReadsWholeUpTo(MaxScatterOpen)

\* The state when main has started every thread and entered its monitor
\* loop, no thread having run yet, over a session built from one of maps.
Running(maps) ==
    /\ process = "running"
    /\ exitCode = -1
    /\ mainPc = "monitor"
    /\ mainI = 0
    /\ hVmm_ = "open"
    /\ physMemMap_ \in maps
    /\ pages_ \in ShuffleChoices(PageList(physMemMap_.pMap))
    /\ g_simulateGCPause = FALSE
    /\ g_totalWorkers = 0
    /\ g_crashCount = 0
    /\ gcThread = "interval"
    /\ memThreads = MemoryPressureThreads
    /\ workers = [t \in {NewWorker("Long"), NewWorker("Transient")} |->
                    IF t.kind = "Long" THEN LongWorkers ELSE TransientWorkers]
    /\ scatterOpen = 0
    /\ statusLine = FALSE
    /\ safepoint = NoCall

(***************************************************************************)
(* SpecBuild: the construction of the session over every map of up to      *)
(* MaxRegions entries.                                                     *)
(***************************************************************************)
NextBuild ==
    \/ VmmSessionCtor(AllMaps)
    \/ MainCatch

SpecBuild == Init /\ [][NextBuild]_vars

(***************************************************************************)
(* SpecMain: the main thread alone, no spawned thread being scheduled.     *)
(***************************************************************************)
NextMain == MainStep(FewMaps)

SpecMain == Init /\ [][NextMain]_vars

(***************************************************************************)
(* SpecReads: the worker threads statement by statement, at most MaxActive *)
(* of them having begun to run, with the GC simulator, from the state in   *)
(* which main has started every thread.                                    *)
(***************************************************************************)
ReadsMaps ==
    {PhysMemMap(PhysMemVersion, m) : m \in {<<>>, <<[pa |-> 0, cb |-> 8192]>>}}

InitReads == Running(ReadsMaps)

\* A thread begins to run while fewer than MaxActive have.
WorkerAdmitted ==
    /\ NumActive < MaxActive
    /\ WorkerStart

NextReads ==
    \/ GCPauseBegin
    \/ GCPauseEnd
    \/ WorkerAdmitted
    \/ CallDoReads
    \/ TransientExpire
    \/ TransientRespawn
    \/ DoReadsEnter
    \/ Safepoint
    \/ ScatterInitialize
    \/ AllocCbWants
    \/ ScatterPrepare
    \/ ScatterExecute
    \/ ScatterRead
    \/ ScatterCallFaults
    \/ ScatterCloseHandle
    \/ DoReadsReturn

SpecReads == InitReads /\ [][NextReads]_vars

(***************************************************************************)
(* SpecSample: the same threads up to the sample each takes on entering    *)
(* DoReads, over pools of no, one and two pages.                           *)
(***************************************************************************)
InitSample == Running(FewMaps)

NextSample ==
    \/ WorkerAdmitted
    \/ CallDoReads
    \/ DoReadsEnter

SpecSample == InitSample /\ [][NextSample]_vars

(***************************************************************************)
(* Spec: the whole program, every thread running, DoReads taken as one     *)
(* step of the worker that calls it.                                       *)
(***************************************************************************)
OneMap == {PhysMemMap(PhysMemVersion, <<[pa |-> 0, cb |-> 8192]>>)}

Next ==
    \/ MainStep(OneMap)
    \/ GCPauseBegin
    \/ GCPauseEnd
    \/ MemoryPressureRound
    \/ WorkerStart
    \/ CallDoReads
    \/ TransientExpire
    \/ TransientRespawn
    \/ DoReadsWhole

Spec == Init /\ [][Next]_vars

(***************************************************************************)
(* SpecSolo: one worker thread at a time, statement by statement, with     *)
(* batches on both sides of the safepoint stride, beside the GC simulator, *)
(* the memory pressure threads and main's monitor loop.                    *)
(***************************************************************************)
\* countDist(4, 4096): the smallest count, the stride, and counts just past
\* one and two strides.
BatchChoices ==
    {CountMin, SafepointStride, SafepointStride + 1, 2 * SafepointStride + 1}

InitSolo == Running(OneMap)

\* A thread begins to run while no other has.
WorkerAlone ==
    /\ NumActive = 0
    /\ WorkerStart

DoReadsEnterBatch == DoReadsEnterOf(BatchChoices)

NextSolo ==
    \/ GCPauseBegin
    \/ GCPauseEnd
    \/ MemoryPressureRound
    \/ MonitorReport
    \/ WorkerAlone
    \/ CallDoReads
    \/ TransientExpire
    \/ TransientRespawn
    \/ DoReadsEnterBatch
    \/ Safepoint
    \/ ScatterInitialize
    \/ AllocCbWants
    \/ ScatterPrepare
    \/ ScatterExecute
    \/ ScatterRead
    \/ ScatterCallFaults
    \/ ScatterCloseHandle
    \/ DoReadsReturn

SpecSolo == InitSolo /\ [][NextSolo]_vars

(***************************************************************************)
(* SpecChurn: the worker threads from the state in which main has started  *)
(* every thread, DoReads taken as one step, every thread scheduled fairly:  *)
(* a thread that can take its next step does take it.  The step a          *)
(* TransientWorker takes at its loop head (another round, or the end of    *)
(* its lifetime) is the clock's choice.                                    *)
(***************************************************************************)
InitChurn == Running(OneMap)

NextChurn ==
    \/ WorkerStart
    \/ CallDoReads
    \/ TransientExpire
    \/ TransientRespawn
    \/ DoReadsWhole

SpecChurn ==
    /\ InitChurn
    /\ [][NextChurn]_vars
    /\ WF_vars(WorkerStart)
    /\ WF_vars(CallDoReads \/ TransientExpire)
    /\ WF_vars(TransientRespawn)
    /\ WF_vars(DoReadsWhole)

(***************************************************************************)
(* Properties of the page list (SpecBuild).                                *)
(***************************************************************************)
Built == mainPc = "spawnGC"

MapLengths == [r \in DOMAIN physMemMap_.pMap |-> physMemMap_.pMap[r].cb]

\* The number of pages a region of L bytes is expected to give.
UnitsOf(L) == IF L > PageSize THEN (L - 1) \div PageSize ELSE 0

RECURSIVE SumUnits(_)
SumUnits(pMap) ==
    IF pMap = <<>> THEN 0 ELSE UnitsOf(Head(pMap).cb) + SumUnits(Tail(pMap))

\* The pairs (r, i) of a region and the number of one of its expected pages.
ExpectedPairs(pMap) ==
    UNION {{<<r, i>> : i \in 0..(UnitsOf(pMap[r].cb) - 1)} : r \in DOMAIN pMap}

ExpectedUnit(pMap, ri) ==
    PMemPageEntry(pMap[ri[1]].pa + ri[2] * PageSize, pMap[ri[1]].cb - ri[2] * PageSize)

PoolCopies(u) == {k \in DOMAIN pages_ : pages_[k] = u}

InRegion(u, e) == e.pa <= u.PageBase /\ u.PageBase < e.pa + e.cb

Disjoint(e, f) == e.pa + e.cb <= f.pa \/ f.pa + f.cb <= e.pa

PairwiseDisjoint(pMap) ==
    \A r, s \in DOMAIN pMap : r # s => Disjoint(pMap[r], pMap[s])

Aligned(pMap) == \A r \in DOMAIN pMap : pMap[r].pa % PageSize = 0

\* C3: every region of length L gives exactly the units (base + i*4096,
\* L - i*4096) for the i with L - i*4096 > 4096, so none when L = 4096; the
\* pool holds these units and no others, its size is the sum of the regions'
\* counts, and regions of 8192, 4096 and 20480 bytes give 1, 0 and 4 units, 5
\* in all.
C3_BuildPerRegionUnits ==
    Built =>
        LET pMap == physMemMap_.pMap
            pairs == ExpectedPairs(pMap)
        IN  /\ Len(pages_) = SumUnits(pMap)
            /\ \A ri \in pairs :
                 Cardinality(PoolCopies(ExpectedUnit(pMap, ri)))
                    = Cardinality({qj \in pairs : ExpectedUnit(pMap, qj) = ExpectedUnit(pMap, ri)})
            /\ \A k \in DOMAIN pages_ : \E ri \in pairs : pages_[k] = ExpectedUnit(pMap, ri)
            /\ \A r \in DOMAIN pMap : pMap[r].cb = PageSize => \A ri \in pairs : ri[1] # r
            /\ MapLengths = <<8192, 4096, 20480>> =>
                 /\ Len(pages_) = 5
                 /\ PairwiseDisjoint(pMap) =>
                      [r \in 1..3 |-> Cardinality({k \in DOMAIN pages_ : InRegion(pages_[k], pMap[r])})]
                         = <<1, 0, 4>>

C3_Witness ==
    /\ Built
    /\ MapLengths = <<8192, 4096, 20480>>
    /\ PairwiseDisjoint(physMemMap_.pMap)
    /\ Len(pages_) = 5
    /\ pages_ # PageList(physMemMap_.pMap)

\* C4 as stated: a region of 4096*2+1 bytes gives exactly 1 unit.
C4_OddRegionOneUnit ==
    (Built /\ MapLengths = <<2 * PageSize + 1>>) => Len(pages_) = 1

\* C4 amended: a region of 4096*2+1 bytes gives exactly 2 units, one at the
\* region's base with 8193 bytes remaining and one a page later with 4097.
C4_OddRegionTwoUnits ==
    (Built /\ MapLengths = <<2 * PageSize + 1>>) =>
        /\ Len(pages_) = 2
        /\ Range(pages_) =
             {PMemPageEntry(physMemMap_.pMap[1].pa, 2 * PageSize + 1),
              PMemPageEntry(physMemMap_.pMap[1].pa + PageSize, PageSize + 1)}

C4_Witness ==
    /\ Built
    /\ MapLengths = <<2 * PageSize + 1>>
    /\ Len(pages_) = 2

PoolAlignedAndDistinct ==
    /\ \A k \in DOMAIN pages_ : pages_[k].PageBase % PageSize = 0
    /\ \A k, l \in DOMAIN pages_ : k # l => pages_[k].PageBase # pages_[l].PageBase

\* C5 as stated: whatever regions the session reports, every unit's base is a
\* multiple of 4096 and no two units of the pool have the same base.
C5_PoolAlignedDistinctAnyMap == Built => PoolAlignedAndDistinct

\* C5 amended: when the reported regions start at multiples of 4096 and are
\* pairwise disjoint, every unit's base is a multiple of 4096 and no two
\* units of the pool have the same base.
C5_PoolAlignedDistinctCleanMap ==
    (Built /\ Aligned(physMemMap_.pMap) /\ PairwiseDisjoint(physMemMap_.pMap))
        => PoolAlignedAndDistinct

C5_Witness ==
    /\ Built
    /\ Len(physMemMap_.pMap) >= 2
    /\ Aligned(physMemMap_.pMap)
    /\ PairwiseDisjoint(physMemMap_.pMap)
    /\ Len(pages_) >= 4
    /\ PoolAlignedAndDistinct

(***************************************************************************)
(* Properties of the main thread (SpecMain).                               *)
(***************************************************************************)
NoThreadStarted == gcThread = "none" /\ memThreads = 0 /\ workers = EmptyBag

\* Construction is over and met one of the fatal conditions: the session did
\* not open, the map was not fetched, its version is unexpected, or the pool
\* is empty.  (hVmm_ = "closed" only after a constructed session's teardown.)
FatalInit ==
    /\ mainPc # "ctor"
    /\ hVmm_ # "closed"
    /\ \/ hVmm_ = Null
       \/ physMemMap_ = NullMap
       \/ (physMemMap_ # NullMap /\ physMemMap_.dwVersion # PhysMemVersion)
       \/ pages_ = <<>>

\* C8: after a fatal condition in initialization main is on its way out with
\* an error (exit code 1), no thread has been started and no counter changed.
C8_FatalInitTerminates ==
    FatalInit =>
        /\ mainPc \in {"catch", "returned"}
        /\ NoThreadStarted
        /\ g_totalWorkers = 0 /\ g_crashCount = 0
        /\ process = "exited" => exitCode = 1

AllStarted ==
    /\ gcThread # "none"
    /\ memThreads = 4
    /\ NumThreads("Long") = 8
    /\ NumThreads("Transient") = 8

\* C9: when main reaches its monitor loop, and so before any status line, it
\* has started the GC simulator, 4 memory pressure threads, 8 LongWorkers and
\* 8 TransientWorkers; once in the monitor loop it stays there and the
\* process keeps running.
C9_SupervisorStartsAllThenReports ==
    /\ [](((mainPc = "monitor" \/ statusLine) => (AllStarted /\ process = "running"))
          /\ (mainPc \in {"spawnGC", "spawnMem", "spawnLong", "spawnTransient"} => statusLine = FALSE))
    /\ [][mainPc = "monitor" => (mainPc' = "monitor" /\ process' = "running")]_vars

\* The first status line is out while no spawned worker has taken a step.
C9_Witness ==
    /\ statusLine
    /\ AllStarted
    /\ \A t \in Threads : t.pc = "start"
    /\ g_totalWorkers = 0

(***************************************************************************)
(* Properties of DoReads (SpecReads).                                      *)
(***************************************************************************)
InIteration(t) == t.pc \in DoReadsPcs

\* C1: whenever no thread is inside DoReads, every scatter handle that was
\* opened has been closed: the session holds no open handle.
C1_OpenedHandlesClosed ==
    (\A t \in Threads : ~InIteration(t)) => scatterOpen = 0

\* C2: on a handle that was opened, VMMDLL_Scatter_Execute is called once and
\* only after all count calls of VMMDLL_Scatter_Prepare, VMMDLL_Scatter_Read
\* only after it, and the handle is closed only after all count reads; no
\* call is made without the open handle.
C2_PrepareExecuteReadClose ==
    \A t \in Threads :
        /\ t.prep <= t.count /\ t.exec <= 1 /\ t.read <= t.count
        /\ t.exec = 1 => t.prep = t.count
        /\ t.read > 0 => t.exec = 1
        /\ t.pc = "closed" => (t.prep = t.count /\ t.exec = 1 /\ t.read = t.count)
        /\ (t.prep > 0 \/ t.exec > 0 \/ t.read > 0) => (t.hS \/ t.pc = "closed")
        /\ t.pc \in {"prepare", "sp_prepare"} => t.exec = 0
        /\ t.pc \in {"read", "sp_read"} => t.exec = 1

C2_Witness ==
    \E t \in Threads :
        /\ t.pc = "closed"
        /\ t.count >= CountMin
        /\ t.prep = t.count /\ t.exec = 1 /\ t.read = t.count

(***************************************************************************)
(* Properties of the sample (SpecSample).                                  *)
(***************************************************************************)
Sampled(t) == t.pc = "sp_pre_open"

\* C6: over a pool that is not empty, GetRandomPages(prng, n) returns n
\* elements, each one an element of the pool, for every n from 0 on and for
\* every thread that has taken its sample, others sampling at the same time;
\* the pool is never changed.
C6_SampleOfPool ==
    /\ [](pages_ # <<>> =>
            /\ \A t \in Threads :
                 Sampled(t) => (Len(t.pages) = t.count /\ Range(t.pages) \subseteq Range(pages_))
            /\ \A n \in 0..(CountMin + MaxExtraCount) :
                 \A sample \in GetRandomPages(pages_, n) :
                    Len(sample) = n /\ Range(sample) \subseteq Range(pages_))
    /\ [][pages_' = pages_]_vars

\* Two threads hold their samples at once, one of them with every page of a
\* pool of two (so with a page drawn more than once).
C6_Witness ==
    /\ Len(pages_) = 2
    /\ SumCopies({t \in Threads : Sampled(t)}) >= 2
    /\ \E t \in Threads : Sampled(t) /\ Range(t.pages) = Range(pages_)

\* C7: over an empty pool no sample is returned and nothing outside the pool
\* is read: a thread that asks for a sample fails there.
C7_EmptyPoolSampleFails ==
    pages_ = <<>> => \A t \in Threads : ~Sampled(t) /\ Garbage \notin Range(t.pages)

(***************************************************************************)
(* Properties of the counters (Spec).                                      *)
(***************************************************************************)
\* C10: g_totalWorkers is never negative.
C10_TotalWorkersNotNegative == g_totalWorkers >= 0

\* A TransientWorker has counted itself out, bringing the counter back to 0.
C10_Witness ==
    /\ g_totalWorkers = 0
    /\ \E t \in Threads : t.pc = "respawn"

(***************************************************************************)
(* Properties of the TransientWorker population (SpecChurn, Spec).         *)
(***************************************************************************)
\* The TransientWorkers' contribution to g_totalWorkers: those that have
\* counted themselves in and not yet out.
TransientCount ==
    SumCopies({t \in ThreadsOf("Transient") : t.pc \notin {"start", "respawn"}})

\* A TransientWorker has counted itself out and not yet started its successor.
Expired == \E t \in ThreadsOf("Transient") : t.pc = "respawn"

NoneAt(pc) == \A t \in Threads : t.pc # pc

\* Every spawned thread is scheduled fairly: again and again no thread is
\* left waiting to take its first step, none waiting at its loop head, none
\* inside DoReads and none waiting to start its successor, so that no thread
\* waits for ever while others pass it.
EveryThreadMoves ==
    /\ []<>NoneAt("start")
    /\ []<>NoneAt("loop")
    /\ []<>NoneAt("reads")
    /\ []<>NoneAt("respawn")

Counted == SumCopies({t \in Threads : t.pc \notin {"start", "respawn"}})

\* C12: TransientWorker churn neither grows nor shrinks the population: there
\* are never more than 8 TransientWorker threads (exactly 8 once main has
\* started them all), an expired one being replaced by exactly one successor;
\* g_totalWorkers is the number of workers that have counted themselves in
\* and not out, so the TransientWorkers' contribution never exceeds 8 and
\* g_totalWorkers never exceeds 16.
C12_ChurnWithoutGrowth ==
    /\ g_totalWorkers <= LongWorkers + TransientWorkers
    /\ process = "running" =>
          /\ NumThreads("Transient") <= TransientWorkers
          /\ NumThreads("Long") <= LongWorkers
          /\ mainPc = "monitor" => NumThreads("Transient") = TransientWorkers
          /\ TransientCount <= TransientWorkers
          /\ g_totalWorkers = Counted

\* Every worker but one is counted, that one having expired and not yet
\* started its successor.
C12_Witness ==
    /\ process = "running"
    /\ Expired
    /\ g_totalWorkers = LongWorkers + TransientWorkers - 1
    /\ NumThreads("Transient") = TransientWorkers

(***************************************************************************)
(* Properties of the workers' failure boundary (SpecSolo).                 *)
(***************************************************************************)
\* Thread t, inside an iteration, is back at its loop head after the step.
EndsIteration(t) ==
    /\ InIteration(t)
    /\ workers' = Goes(workers, t, BackInLoop(t))

\* Thread t, inside an iteration, takes the step.
IterationStep(t) ==
    /\ InIteration(t)
    /\ \E t2 \in BagToSet(workers') : t2 # t /\ workers' = Goes(workers, t, t2)

\* C13: however an iteration ends (a normal return from the end of DoReads,
\* a skip at the open, a std::exception such as the bad_alloc of cbWants, or
\* anything else thrown, such as a fault of VMMDLL_Scatter_Execute), the
\* worker is back at its loop head, the process runs on and g_totalWorkers is
\* unchanged; g_crashCount is unchanged by the return, the skip and the
\* std::exception, and one more after anything else; no other step of an
\* iteration changes a counter, and g_crashCount never decreases.
C13_IterationOutcomes ==
    /\ [][\A t \in Threads :
            EndsIteration(t) =>
                /\ process' = "running"
                /\ g_totalWorkers' = g_totalWorkers
                /\ g_crashCount' \in {g_crashCount, g_crashCount + 1}
                /\ t.pc \in {"closed", "open", "alloc"} => g_crashCount' = g_crashCount
                /\ t.pc \in {"prepare", "execute"} => g_crashCount' = g_crashCount + 1]_vars
    /\ [][\A t \in Threads :
            (IterationStep(t) /\ ~EndsIteration(t)) => UNCHANGED counterVars]_vars
    /\ [][g_crashCount' >= g_crashCount]_vars

\* After a crash was counted the worker is at its loop head, still counted,
\* in a running process.
C13_Witness ==
    /\ process = "running"
    /\ g_crashCount >= 1
    /\ g_totalWorkers = 1
    /\ \E t \in Threads : t.pc = "loop"

(***************************************************************************)
(* The workers over a session that hands out one handle more than there    *)
(* are workers.                                                            *)
(***************************************************************************)
HandleLimit == LongWorkers + TransientWorkers + 1

DoReadsLeaking == DoReadsWholeUpTo(HandleLimit)

InitLeak == Running(OneMap)

NextLeak ==
    \/ WorkerStart
    \/ CallDoReads
    \/ DoReadsLeaking

SpecLeak == InitLeak /\ [][NextLeak]_vars

(***************************************************************************)
(* One worker whose calls of SimulateGCSafepoint are observed.             *)
(***************************************************************************)
InitSafepoint == Running(OneMap)

NextSafepoint ==
    \/ GCPauseBegin
    \/ GCPauseEnd
    \/ WorkerAlone
    \/ CallDoReads
    \/ DoReadsEnter
    \/ SafepointObserved
    \/ ScatterInitialize
    \/ AllocCbWants
    \/ ScatterPrepare
    \/ ScatterExecute
    \/ ScatterRead
    \/ ScatterCloseHandle
    \/ DoReadsReturn

SpecSafepoint == InitSafepoint /\ [][NextSafepoint]_vars

(***************************************************************************)
(* Properties of LongWorker (SpecChurn).                                   *)
(***************************************************************************)
\* Thread t takes the step and goes on as t2.
StepOf(t, t2) == t2 # t /\ workers' = Goes(workers, t, t2)

\* C14: a LongWorker increments g_totalWorkers at its start and at no other
\* step, no step of a LongWorker decrements it (the counter goes down only
\* when a TransientWorker leaves its loop), and a LongWorker never ends: as
\* long as the process runs there are 8 of them, each one not yet started,
\* at its loop head or inside DoReads, and every step of a started one leads
\* into DoReads or back to the loop head.
C14_LongWorkerNeverEnds ==
    /\ [](process = "running" =>
            /\ NumThreads("Long") = LongWorkers
            /\ \A t \in ThreadsOf("Long") : t.pc \in {"start", "loop", "reads"})
    /\ [][\A t \in ThreadsOf("Long") : \A t2 \in BagToSet(workers') :
            StepOf(t, t2) =>
                /\ t2.kind = "Long"
                /\ t.pc = "start" =>
                      (t2.pc = "loop" /\ g_totalWorkers' = g_totalWorkers + 1)
                /\ t.pc # "start" =>
                      (t2.pc \in {"loop", "reads"} /\ g_totalWorkers' = g_totalWorkers)]_vars
    /\ [][g_totalWorkers' < g_totalWorkers =>
            \E t \in ThreadsOf("Transient") :
                t.pc = "loop" /\ StepOf(t, [t EXCEPT !.pc = "respawn"])]_vars

\* All 8 LongWorkers have started and are counted, one of them inside
\* DoReads, after iterations that ended in a counted crash.
C14_Witness ==
    /\ process = "running"
    /\ NumThreads("Long") = LongWorkers
    /\ \A t \in ThreadsOf("Long") : t.pc # "start"
    /\ \E t \in ThreadsOf("Long") : t.pc = "reads"
    /\ g_crashCount = MaxCrashes
    /\ g_totalWorkers >= LongWorkers

(***************************************************************************)
(* Properties of SimulateGCSafepoint (SpecSafepoint).                      *)
(***************************************************************************)
\* C15: every call of SimulateGCSafepoint draws a value in 0..99; below 5 it
\* yields with SwitchToThread, from 5 to 9 it yields with Sleep(0), from 10
\* on it does neither; and it has slept in Sleep(1) exactly when it read the
\* pause flag as set.
C15_DrawBelowHundred ==
    [][safepoint' # safepoint =>
        /\ safepoint'.r \in 0..(SafepointDrawMax - 1)
        /\ safepoint'.r < YieldBelow => safepoint'.yield = "SwitchToThread"
        /\ (safepoint'.r >= YieldBelow /\ safepoint'.r < SleepZeroBelow) =>
               safepoint'.yield = "Sleep0"
        /\ safepoint'.r >= SleepZeroBelow => safepoint'.yield = "none"
        /\ safepoint'.slept = g_simulateGCPause]_vars

(***************************************************************************)
(* Safepoints inside the loops of DoReads (SpecSolo).                      *)
(***************************************************************************)
\* The number of rounds among the first n whose index is a multiple of
\* SafepointStride: rounds 0, 100, 200, ...
ChecksWithin(n) == (n + SafepointStride - 1) \div SafepointStride

\* The safepoints of an iteration before its prepare loop (lines 175, 184)
\* and between its loops (lines 203, 209).
ChecksBeforePrepare == 2
ChecksBetweenLoops == 2

\* C16 (as stated): in either loop a safepoint follows the registrations
\* (fetches) number 100, 200, 300, ... and no other one.
C16_AfterEveryHundredth ==
    \A t \in Threads :
        /\ t.pc = "sp_prepare" => (t.prep > 0 /\ t.prep % SafepointStride = 0)
        /\ t.pc = "sp_read" => (t.read > 0 /\ t.read % SafepointStride = 0)

\* C16 (amended): in either loop a safepoint follows the first registration
\* (fetch) and every 100th one after it, numbers 1, 101, 201, ..., and no
\* other one: ceil(n/100) safepoints in a loop of n rounds.
C16_AfterFirstOfEveryHundred ==
    \A t \in Threads :
        /\ t.pc = "sp_prepare" => t.prep % SafepointStride = 1
        /\ t.pc = "prepare" => t.sp = ChecksBeforePrepare + ChecksWithin(t.prep)
        /\ t.pc = "sp_pre_exec" =>
              /\ t.prep = t.count
              /\ t.sp = ChecksBeforePrepare + ChecksWithin(t.count)
        /\ t.pc = "sp_read" => t.read % SafepointStride = 1
        /\ t.pc = "read" =>
              t.sp = ChecksBeforePrepare + ChecksWithin(t.count)
                     + ChecksBetweenLoops + ChecksWithin(t.read)
        /\ t.pc = "close" =>
              /\ t.read = t.count
              /\ t.sp = ChecksBeforePrepare + ChecksBetweenLoops
                        + 2 * ChecksWithin(t.count)

\* A worker at the safepoint that follows fetch number 201 of 201.
C16_Witness ==
    \E t \in Threads :
        /\ t.pc = "sp_read"
        /\ t.count = 2 * SafepointStride + 1
        /\ t.read = 2 * SafepointStride + 1

(***************************************************************************)
(* The skip at a failed VMMDLL_Scatter_Initialize (SpecSolo).              *)
(***************************************************************************)
\* C17: when VMMDLL_Scatter_Initialize returns null the iteration ends there:
\* it has made one safepoint call, no call of Prepare, Execute, Read or
\* CloseHandle (it holds no handle, and the number of open handles is as it
\* was), both counters are unchanged, the process runs on and the worker is
\* back at its loop head, from where its next step is the next round.
C17_OpenFailureIsSkip ==
    [][\A t \in Threads :
          (t.pc = "open" /\ EndsIteration(t)) =>
              /\ t.sp = 1
              /\ t.prep = 0 /\ t.exec = 0 /\ t.read = 0
              /\ ~t.hS
              /\ scatterOpen' = scatterOpen
              /\ g_totalWorkers' = g_totalWorkers
              /\ g_crashCount' = g_crashCount
              /\ process' = "running"
              /\ BackInLoop(t) \in BagToSet(workers')
              /\ BackInLoop(t).pc = "loop"]_vars

\* A worker about to open a handle when the session has none left: the call
\* returns null.
C17_Witness ==
    /\ process = "running"
    /\ scatterOpen = MaxScatterOpen
    /\ \E t \in Threads : t.pc = "open" /\ t.sp = 1 /\ ~t.hS

(***************************************************************************)
(* Who writes what (SpecSolo).                                             *)
(***************************************************************************)
\* C19: g_simulateGCPause changes only in a step of GCSimulatorThread (no
\* worker moves, no status line is written, and the memory pressure threads
\* have no step that changes anything); a call of SimulateGCSafepoint and
\* the status line of the monitor loop change neither counter nor the flag;
\* pages_ is the same in every state after the session's construction.
C19_WritersOfSharedState ==
    /\ [][g_simulateGCPause' # g_simulateGCPause =>
            /\ gcThread' # gcThread
            /\ workers' = workers
            /\ memThreads' = memThreads
            /\ statusLine' = statusLine]_vars
    /\ [][\A t \in Threads :
            (t.pc \in SafepointPcs /\ IterationStep(t)) =>
                /\ g_totalWorkers' = g_totalWorkers
                /\ g_crashCount' = g_crashCount
                /\ g_simulateGCPause' = g_simulateGCPause]_vars
    /\ [][statusLine' # statusLine =>
            /\ g_totalWorkers' = g_totalWorkers
            /\ g_crashCount' = g_crashCount
            /\ g_simulateGCPause' = g_simulateGCPause]_vars
    /\ [][pages_' = pages_]_vars

\* The flag is set while a worker that has been counted is at the safepoint
\* inside its prepare loop, and the monitor loop has reported.
C19_Witness ==
    /\ g_simulateGCPause
    /\ statusLine
    /\ g_totalWorkers > 0
    /\ pages_ # <<>>
    /\ \E t \in Threads : t.pc = "sp_prepare"

(***************************************************************************)
(* Open scatter handles and workers (SpecLeak).                            *)
(***************************************************************************)
\* C18: a scatter handle is used and closed by the worker that opened it,
\* within the DoReads call that opened it; hence the session never has more
\* handles open than there are workers, and none while no worker is inside
\* DoReads.
C18_OpenWithinWorkers ==
    process = "running" =>
        scatterOpen <= NumThreads("Long") + NumThreads("Transient")

(***************************************************************************)
(* The session's lifetime and the threads that use it (Spec).              *)
(***************************************************************************)
\* C20: while the process runs and a worker thread exists, main's vmm has
\* not been destroyed: VMMDLL_Close and VMMDLL_MemFree have not been called.
C20_SessionOutlivesWorkers ==
    (process = "running" /\ workers # EmptyBag) => ~SessionGone

=============================================================================
